---------------------------- MODULE Spec2Model ----------------------------
(***************************************************************************)
(* A model of cobalt's WASM bytecode reader (WasmBytecodeReaderBase): the  *)
(* byte cursor over a caller-owned buffer, the LEB128 codec built on it,   *)
(* and the grammar rules (read_val_ty, read_name, read_vec,                *)
(* read_result_ty, read_function_ty); of SmallMultiArray with its builder; *)
(* and of the AST types RefType and Limit.                                 *)
(*                                                                         *)
(* Representation.  A byte is an integer 0..255.  A 64-bit word (u64, or   *)
(* i64 after std::bit_cast) is the set of its set bit positions, a subset  *)
(* of 0..63: TLC's integers are 32 bits wide, so the accumulator of the    *)
(* codec cannot be one integer.  OR is set union, a left shift moves the   *)
(* positions up and drops those past bit 63.  An i64 is negative exactly   *)
(* when it contains bit 63.                                                *)
(*                                                                         *)
(* A method that can throw is an operator returning                        *)
(*   [rd |-> the reader afterwards, err |-> the exception, val |-> value]  *)
(* where rd = [data, size, touched]: std::span's pointer (as an offset     *)
(* into the buffer) and length, plus the set of buffer offsets that were   *)
(* dereferenced so far (a history of the memory accesses).                 *)
(***************************************************************************)
EXTENDS Integers, Sequences, FiniteSets, TLC

VARIABLES
    bytecode,    \* the buffer the reader was constructed over (caller-owned)
    remaining_,  \* WasmBytecodeReaderBase::remaining_ : [data, size]
    touched,     \* offsets of `bytecode` dereferenced so far (history)
    width,       \* template argument N of the instantiation under test, or 0
    last,        \* the last call: [op, arg, pre, err, val]
    builder,     \* a MultiArrayBuilder: [underlying_, indices_, current_index_]
    array,       \* the SmallMultiArray it built: [array_, indices_], or NoArray
    pushed,      \* what was pushed, by sub-vector: [closed, open] (history)
    args,        \* the arguments of the functions on AST types: [min, max, ty];
                 \* or the values a buffer was encoded from: [values]
    linear_arena,\* a LinearArena: [current_]
    frames,      \* the ArenaFrame objects constructed so far, in order:
                 \* [arena_, old_current_, alive, frame]; frame is the frame of
                 \* the arena the object stands for, 0 for none (history)
    entered      \* the frames entered so far: [at, released] (history)

vars == <<bytecode, remaining_, touched, width, last, builder, array, pushed, args,
          linear_arena, frames, entered>>

\* the variables of the arena
arena_vars == <<linear_arena, frames, entered>>

\* the variables of the reader, the multi-array and the AST functions
other_vars == <<bytecode, remaining_, touched, width, builder, array, pushed, args>>

-----------------------------------------------------------------------------
(* Bounds of the model *)

\* longest buffer made of alphabet bytes (Spec)
MaxLen == 3

\* largest N tried for consume_n<N> (Spec)
MaxConsumeN == 4

\* values 0..SmallMax are all encoded and decoded (SpecLeb)
SmallMax == 260

\* largest number N of sub-vectors of a SmallMultiArray (SpecStore)
MaxArity == 2

\* most elements pushed into one MultiArrayBuilder (SpecStore)
MaxPush == 3

\* most values encoded one after the other into one buffer (SpecSeq)
MaxValues == 2

\* most ArenaFrame objects constructed (SpecArena)
MaxFrames == 2

\* the arena's cursor ranges over the offsets 0..ArenaSize (SpecArena)
ArenaSize == 1

\* the u32 values 0..SmallU32 and 2^32 - 1 - SmallU32..2^32 - 1 are all tried
\* as the bounds of a Limit (SpecAst)
SmallU32 == 3

-----------------------------------------------------------------------------
(* Program constants *)

\* internal::bits_per_iteration
bits_per_iteration == 7

\* internal::leb128_value
leb128_value == 127

\* internal::leb128_continue
leb128_continue == 128

\* internal::leb128_sign
leb128_sign == 64

\* read_leb128_internal: static_assert(N <= 64, ...)
MaxWidth == 64

\* number of bits of u64 / i64
WordBits == 64

-----------------------------------------------------------------------------
(* Bytes and 64-bit words *)

\* bit j of the byte b
BitOf(b, j) == (b \div (2^j)) % 2

\* the word whose value is the natural number n (n < 2^31)
WordOf(n) == {j \in 0..30 : (n \div (2^j)) % 2 = 1}

RECURSIVE SumPow(_)
SumPow(bits) ==
    IF bits = {} THEN 0
    ELSE LET j == CHOOSE x \in bits : TRUE
         IN  2^j + SumPow(bits \ {j})

\* the natural number a word below 2^31 stands for
NatOf(w) == SumPow(w)

\* a & m on bytes
ByteAnd(a, m) == SumPow({j \in 0..7 : BitOf(a, j) = 1 /\ BitOf(m, j) = 1})

\* (u64) x << s, for a word x and 0 <= s < 64: the bits shifted out are lost
ShiftLeft(x, s) == {j + s : j \in x} \cap (0..(WordBits - 1))

\* ~u64{0} << s
OnesFrom(s) == s..(WordBits - 1)

\* static_cast to an unsigned or signed integer of w bits: keeps the low w bits
Truncate(x, w) == x \cap (0..(w - 1))

\* i < len, for a loop counter i (an int) and a word len
LessThanWord(i, len) ==
    \/ \E j \in len : j >= 31
    \/ i < NatOf(len)

-----------------------------------------------------------------------------
(* Exceptions (WasmBytecodeReadException and its message) *)

NoErr == [kind |-> "none", expected |-> -1, actual |-> -1]

EndOfModule == [kind |-> "unexpected end of module", expected |-> -1, actual |-> -1]

UnexpectedByte(value, got) ==
    [kind |-> "got unexpected byte", expected |-> value, actual |-> got]

InvalidLEB128 == [kind |-> "invalid LEB128 integer", expected |-> -1, actual |-> -1]

UnknownType(byte) ==
    [kind |-> "unknown type identifier", expected |-> -1, actual |-> byte]

Throw(rd, e) == [rd |-> rd, err |-> e, val |-> <<>>]

Return(rd, v) == [rd |-> rd, err |-> NoErr, val |-> v]

-----------------------------------------------------------------------------
(* The byte cursor *)

\* WasmBytecodeReaderBase(std::span<u8> bytecode) : remaining_{bytecode}
Construct(buf) == [data |-> 0, size |-> Len(buf), touched |-> {}]

\* remaining_[0] at span offset `off`: the byte of the buffer there.  Outside
\* the buffer the read is undefined; any byte may come back.
Deref(buf, off, garbage) ==
    IF off \in 0..(Len(buf) - 1) THEN buf[off + 1] ELSE garbage

\* a plausible slip: the emptiness check is off by one (size < 0 never holds)
consume_unchecked(buf, rd) ==
    Return([data |-> rd.data + 1, size |-> rd.size - 1,
            touched |-> rd.touched \cup {rd.data}],
           Deref(buf, rd.data, 0))

\* a plausible slip: subspan(2)
consume_skip(buf, rd) ==
    IF rd.size = 0
    THEN Throw(rd, EndOfModule)
    ELSE Return([data |-> rd.data + 2, size |-> rd.size - 2,
                 touched |-> rd.touched \cup {rd.data}],
                Deref(buf, rd.data, 0))

\* u8 consume()
consume(buf, rd) ==
    IF rd.size = 0
    THEN Throw(rd, EndOfModule)
    ELSE Return([data |-> rd.data + 1, size |-> rd.size - 1,
                 touched |-> rd.touched \cup {rd.data}],
                Deref(buf, rd.data, 0))

\* a plausible slip: the comparison is inverted
expect_inverted(buf, rd, value) ==
    LET got == consume(buf, rd)
    IN  IF got.err # NoErr THEN got
        ELSE IF got.val = value
             THEN Throw(got.rd, UnexpectedByte(value, got.val))
             ELSE Return(got.rd, <<>>)

\* void expect(u8 value)
expect(buf, rd, value) ==
    LET got == consume(buf, rd)
    IN  IF got.err # NoErr THEN got
        ELSE IF got.val # value
             THEN Throw(got.rd, UnexpectedByte(value, got.val))
             ELSE Return(got.rd, <<>>)

\* the loop of consume_n: for (i = 0; i < N; ++i) buf[i] = consume();
RECURSIVE consume_n_loop(_, _, _, _, _)
consume_n_loop(buf, rd, N, i, out) ==
    IF i < N
    THEN LET c == consume(buf, rd)
         IN  IF c.err # NoErr THEN c
             ELSE consume_n_loop(buf, c.rd, N, i + 1, Append(out, c.val))
    ELSE Return(rd, out)

\* std::array<u8, N> consume_n<N>()
consume_n(buf, rd, N) == consume_n_loop(buf, rd, N, 0, <<>>)

-----------------------------------------------------------------------------
(* The LEB128 codec *)

\* a plausible slip: the bound is compared with <= (one group too many)
leb128_continues_le(last_byte, shift, N) ==
    ByteAnd(last_byte, leb128_continue) # 0 /\ shift <= N

\* a plausible slip: the loop stops as soon as one more group would pass N
leb128_continues_early(last_byte, shift, N) ==
    ByteAnd(last_byte, leb128_continue) # 0 /\ shift + bits_per_iteration < N

\* a plausible slip: the loop goes on for as long as bytes continue
leb128_continues_unbounded(last_byte, shift, N) ==
    ByteAnd(last_byte, leb128_continue) # 0

\* the loop condition: (last_byte & leb128_continue) != 0 && shift < N
leb128_continues(last_byte, shift, N) ==
    ByteAnd(last_byte, leb128_continue) # 0 /\ shift < N

\* a plausible slip: the check after the loop is left out
leb128_too_long_never(last_byte, shift, N) == FALSE

\* the check after the loop: (last_byte & leb128_continue) != 0 && shift >= N
leb128_too_long(last_byte, shift, N) ==
    ByteAnd(last_byte, leb128_continue) # 0 /\ shift >= N

\* a plausible slip: the continuation bit is not masked off
leb128_accumulate_nomask(result, last_byte, shift) ==
    result \cup ShiftLeft(WordOf(last_byte), shift)

\* result |= (last_byte & leb128_value) << shift
leb128_accumulate(result, last_byte, shift) ==
    result \cup ShiftLeft(WordOf(ByteAnd(last_byte, leb128_value)), shift)

\* the do-while loop of read_leb128_internal and the check after it; `shifts`
\* collects the shift amounts the loop used
RECURSIVE leb128_loop(_, _, _, _, _, _)
leb128_loop(buf, rd, N, result, shift, shifts) ==
    LET c == consume(buf, rd)
    IN  IF c.err # NoErr THEN c
        ELSE LET last_byte == c.val
                 result2   == leb128_accumulate(result, last_byte, shift)
                 shift2    == shift + bits_per_iteration
             IN  IF leb128_continues(last_byte, shift2, N)
                 THEN leb128_loop(buf, c.rd, N, result2, shift2, shifts \cup {shift})
                 ELSE IF leb128_too_long(last_byte, shift2, N)
                      THEN Throw(c.rd, InvalidLEB128)
                      ELSE Return(c.rd, [result |-> result2, shift |-> shift2,
                                         last_byte |-> last_byte,
                                         shifts |-> shifts \cup {shift}])

\* a plausible slip: running out of input is reported as a malformed integer
read_leb128_internal_no_eof(buf, rd, N) ==
    LET parsed == leb128_loop(buf, rd, N, {}, 0, {})
    IN  IF parsed.err = EndOfModule THEN Throw(parsed.rd, InvalidLEB128) ELSE parsed

\* a plausible slip: the byte after the last group is taken as well
read_leb128_internal_greedy(buf, rd, N) ==
    LET parsed == leb128_loop(buf, rd, N, {}, 0, {})
    IN  IF parsed.err # NoErr THEN parsed
        ELSE [parsed EXCEPT !.rd = consume(buf, parsed.rd).rd]

\* internal::LEB128ReaderResult read_leb128_internal<N>()
read_leb128_internal(buf, rd, N) == leb128_loop(buf, rd, N, {}, 0, {})

\* a plausible slip: the result is masked to the width, one bit short
read_leb128_unsigned_masked(buf, rd, N) ==
    LET parsed == read_leb128_internal(buf, rd, N)
    IN  IF parsed.err # NoErr THEN parsed
        ELSE Return(parsed.rd, Truncate(parsed.val.result, N - 1))

\* u64 read_leb128_unsigned<N>()
read_leb128_unsigned(buf, rd, N) ==
    LET parsed == read_leb128_internal(buf, rd, N)
    IN  IF parsed.err # NoErr THEN parsed
        ELSE Return(parsed.rd, parsed.val.result)

\* a plausible slip: the sign bit is taken to be the continuation bit's place
sign_extends_msb(shift, last_byte) ==
    shift < WordBits /\ ByteAnd(last_byte, leb128_continue) # 0

\* (parsed.shift < 64) && (parsed.last_byte & internal::leb128_sign) != 0
sign_extends(shift, last_byte) ==
    shift < WordBits /\ ByteAnd(last_byte, leb128_sign) # 0

\* a plausible slip: the sign is extended from bit N, not from the shift reached
read_leb128_signed_from_width(buf, rd, N) ==
    LET parsed == read_leb128_internal(buf, rd, N)
    IN  IF parsed.err # NoErr THEN parsed
        ELSE LET result == parsed.val.result
             IN  IF sign_extends(parsed.val.shift, parsed.val.last_byte)
                 THEN Return(parsed.rd, result \cup OnesFrom(N))
                 ELSE Return(parsed.rd, result)

\* i64 read_leb128_signed<N>()
read_leb128_signed(buf, rd, N) ==
    LET parsed == read_leb128_internal(buf, rd, N)
    IN  IF parsed.err # NoErr THEN parsed
        ELSE LET result == parsed.val.result
             IN  IF sign_extends(parsed.val.shift, parsed.val.last_byte)
                 THEN Return(parsed.rd, result \cup OnesFrom(parsed.val.shift))
                 ELSE Return(parsed.rd, result)

\* u8 read_u8(), u16 read_u16(), u32 read_u32(), u64 read_u64(): the u64 of
\* read_leb128_unsigned<w> converted to the w-bit return type
read_uN(buf, rd, w) ==
    LET r == read_leb128_unsigned(buf, rd, w)
    IN  IF r.err # NoErr THEN r ELSE Return(r.rd, Truncate(r.val, w))

\* i8 read_i8(), i16 read_i16(), i32 read_i32(), i64 read_i64(): the i64 of
\* read_leb128_signed<w> converted to the w-bit return type (its low w bits,
\* in two's complement)
read_iN(buf, rd, w) ==
    LET r == read_leb128_signed(buf, rd, w)
    IN  IF r.err # NoErr THEN r ELSE Return(r.rd, Truncate(r.val, w))

\* u8 read_byte()
read_byte(buf, rd) == consume(buf, rd)

-----------------------------------------------------------------------------
(* Grammar rules built on the cursor *)

\* enum class ValueType : std::uint8_t, each enumerator with its value
ValueType ==
    [i32 |-> 127, i64 |-> 126, f32 |-> 125, f64 |-> 124, v128 |-> 123,
     func_ref |-> 112, extern_ref |-> 111]

\* a plausible slip: the default case falls back to a type instead of throwing
read_val_ty_lenient(buf, rd) ==
    LET b == read_byte(buf, rd)
    IN  IF b.err # NoErr THEN b
        ELSE CASE b.val = 111 -> Return(b.rd, "extern_ref")
               [] b.val = 112 -> Return(b.rd, "func_ref")
               [] b.val = 123 -> Return(b.rd, "v128")
               [] b.val = 124 -> Return(b.rd, "f64")
               [] b.val = 125 -> Return(b.rd, "f32")
               [] b.val = 126 -> Return(b.rd, "i64")
               [] OTHER       -> Return(b.rd, "i32")

\* ValueType read_val_ty(): the switch over the byte read; a ValueType is the
\* name of its enumerator
read_val_ty(buf, rd) ==
    LET b == read_byte(buf, rd)
    IN  IF b.err # NoErr THEN b
        ELSE CASE b.val = 111 -> Return(b.rd, "extern_ref")
               [] b.val = 112 -> Return(b.rd, "func_ref")
               [] b.val = 123 -> Return(b.rd, "v128")
               [] b.val = 124 -> Return(b.rd, "f64")
               [] b.val = 125 -> Return(b.rd, "f32")
               [] b.val = 126 -> Return(b.rd, "i64")
               [] b.val = 127 -> Return(b.rd, "i32")
               [] OTHER       -> Throw(b.rd, UnknownType(b.val))

\* the loop of read_name: for (i = 0; i < len; ++i) out.push_back(read_byte())
RECURSIVE read_name_loop(_, _, _, _, _)
read_name_loop(buf, rd, len, i, out) ==
    IF LessThanWord(i, len)
    THEN LET b == read_byte(buf, rd)
         IN  IF b.err # NoErr THEN b
             ELSE read_name_loop(buf, b.rd, len, i + 1, Append(out, b.val))
    ELSE Return(rd, out)

\* std::string read_name() (the allocation of out.reserve(len) is not modelled)
read_name(buf, rd) ==
    LET len == read_uN(buf, rd, 32)
    IN  IF len.err # NoErr THEN len
        ELSE read_name_loop(buf, len.rd, len.val, 0, <<>>)

\* ReadMethod<T>: a pointer to a member function is the name of the method;
\* self.*consume_fn() is the call through it
Invoke(consume_fn, buf, rd) ==
    CASE consume_fn = "read_val_ty" -> read_val_ty(buf, rd)
      [] consume_fn = "read_byte"   -> read_byte(buf, rd)

\* a plausible slip: an element that fails ends the vector, which is returned
\* as far as it got
RECURSIVE read_vec_loop_lenient(_, _, _, _, _, _)
read_vec_loop_lenient(buf, rd, consume_fn, len, i, out) ==
    IF LessThanWord(i, len)
    THEN LET x == Invoke(consume_fn, buf, rd)
         IN  IF x.err # NoErr THEN Return(x.rd, out)
             ELSE read_vec_loop_lenient(buf, x.rd, consume_fn, len, i + 1,
                                        Append(out, x.val))
    ELSE Return(rd, out)

\* the loop of read_vec: for (i = 0; i < len; ++i) out.push_back(consume_fn())
RECURSIVE read_vec_loop(_, _, _, _, _, _)
read_vec_loop(buf, rd, consume_fn, len, i, out) ==
    IF LessThanWord(i, len)
    THEN LET x == Invoke(consume_fn, buf, rd)
         IN  IF x.err # NoErr THEN x
             ELSE read_vec_loop(buf, x.rd, consume_fn, len, i + 1, Append(out, x.val))
    ELSE Return(rd, out)

\* absl::InlinedVector<T, 4> read_vec(ReadMethod<T> reader) (the allocation of
\* out.reserve(len) is not modelled)
read_vec(buf, rd, consume_fn) ==
    LET len == read_uN(buf, rd, 32)
    IN  IF len.err # NoErr THEN len
        ELSE read_vec_loop(buf, len.rd, consume_fn, len.val, 0, <<>>)

\* absl::InlinedVector<ValueType, 4> read_result_ty(): the argument of
\* `read_vec(read_val_ty())` is a call of read_val_ty, made before read_vec is
\* entered and the length is read; read_vec then decodes with read_val_ty
read_result_ty(buf, rd) ==
    LET ty == read_val_ty(buf, rd)
    IN  IF ty.err # NoErr THEN ty
        ELSE read_vec(buf, ty.rd, "read_val_ty")

-----------------------------------------------------------------------------
(* SmallMultiArray and its builder.  std::array<u32, N> indices_ is a
   function on 1..N, so that indices_[i] of the code is indices_[i + 1] here;
   a u32 computed by a subtraction is a word, a set of bit positions in 0..31 *)

\* a failed assert(expression && message): the process is aborted
Aborted(message) == [kind |-> message, expected |-> -1, actual |-> -1]

NoBuilder == [underlying_ |-> <<>>, indices_ |-> <<>>, current_index_ |-> 0]

NoArray == [array_ |-> <<>>, indices_ |-> <<>>, built |-> FALSE]

NoPushes == [closed |-> <<>>, open |-> <<>>]

\* a - b on u32 operands: the difference modulo 2^32
U32Sub(a, b) ==
    IF a >= b THEN WordOf(a - b) ELSE (0..31) \ WordOf(b - a - 1)

\* the members of a MultiArrayBuilder<T, N, SmallSize> after construction
MultiArrayBuilder(N) ==
    [underlying_ |-> <<>>, indices_ |-> [i \in 1..N |-> 0], current_index_ |-> 0]

\* void MultiArrayBuilder::push(T value)
push(b, value) == [b EXCEPT !.underlying_ = Append(@, value)]

\* a plausible slip: the bound is not checked; the store lands past the end
end_sub_vec_unchecked(b, N) ==
    [obj |-> [b EXCEPT !.indices_ = [i \in DOMAIN b.indices_ \cup {b.current_index_ + 1} |->
                                        IF i = b.current_index_ + 1
                                        THEN Len(b.underlying_) ELSE b.indices_[i]],
                       !.current_index_ = @ + 1],
     err |-> NoErr]

\* void MultiArrayBuilder::end_sub_vec()
end_sub_vec(b, N) ==
    IF b.current_index_ < N
    THEN [obj |-> [b EXCEPT !.indices_[b.current_index_ + 1] = Len(b.underlying_),
                            !.current_index_ = @ + 1],
          err |-> NoErr]
    ELSE [obj |-> b, err |-> Aborted("out of bounds on MultiArrayBuilder")]

\* SmallMultiArray::SmallMultiArray(data, indices)
SmallMultiArray(data, indices) == [array_ |-> data, indices_ |-> indices, built |-> TRUE]

\* SmallMultiArray<T, N, SmallSize> MultiArrayBuilder::build()
build(b) == SmallMultiArray(b.underlying_, b.indices_)

\* a plausible slip: the bound is not checked; what lies past the end of
\* indices_ is read (as 0)
sub_vec_unchecked(a, N, i) ==
    LET begin == IF i = 0 \/ i > N THEN 0 ELSE a.indices_[i]
    IN  [err |-> NoErr,
         val |-> [data |-> begin,
                  size |-> IF i < N THEN U32Sub(a.indices_[i + 1], begin) ELSE {},
                  read |-> {i - 1, i} \ {-1}]]

\* std::span<T> SmallMultiArray::sub_vec(usize i): the span as [data, size], an
\* offset into array_ and a u32 length, with the entries of indices_ it read
sub_vec(a, N, i) ==
    IF i < N
    THEN LET begin  == IF i = 0 THEN 0 ELSE a.indices_[i]
             length == U32Sub(a.indices_[i + 1], begin)
         IN  [err |-> NoErr,
              val |-> [data |-> begin, size |-> length, read |-> {i - 1, i} \ {-1}]]
    ELSE [err |-> Aborted("attempted to get non-existent sub-vec"), val |-> <<>>]

-----------------------------------------------------------------------------
(* RefType and Limit.  A RefType is its underlying u8; a std::uint32_t is a
   word, a set of bit positions in 0..31; a std::optional is [has_value, value] *)

\* enum class RefType : std::uint8_t, each enumerator with its value
RefType == [func_ref |-> 112, extern_ref |-> 111]

\* std::nullopt
nullopt == [has_value |-> FALSE]

\* std::make_optional(v)
make_optional(v) == [has_value |-> TRUE, value |-> v]

\* static_cast<RefType>(ty): the RefType whose underlying value is ty's
static_cast_RefType(ty) == ValueType[ty]

\* a plausible slip: the conversion is not checked
into_ref_ty_unchecked(ty) == [err |-> NoErr, val |-> static_cast_RefType(ty)]

\* RefType into_ref_ty(ValueType ty); in the assert, && binds tighter than ||,
\* and the string literal converts to true
into_ref_ty(ty) ==
    IF ty = "func_ref" \/ (ty = "extern_ref" /\ TRUE)
    THEN [err |-> NoErr, val |-> static_cast_RefType(ty)]
    ELSE [err |-> Aborted("attempting to convert non-ref to ref"), val |-> <<>>]

\* std::optional<RefType> try_into_ref_ty(ValueType ty)
try_into_ref_ty(ty) ==
    IF ty = "func_ref" \/ ty = "extern_ref"
    THEN make_optional(static_cast_RefType(ty))
    ELSE nullopt

\* std::numeric_limits<std::uint32_t>::max()
U32Max == 0..31

\* Limit::Limit(min, max)
Limit(mn, mx) == [min_ |-> mn, max_ |-> mx]

\* static Limit Limit::unbounded(std::uint32_t min)
unbounded(mn) == Limit(mn, U32Max)

\* static Limit Limit::bounded(std::uint32_t min, std::uint32_t max)
bounded(mn, mx) == Limit(mn, mx)

\* no arguments drawn
NoArgs == [min |-> {}, max |-> {}, ty |-> "i32"]

\* std::uint32_t Limit::min()
min(l) == l.min_

\* std::optional<std::uint32_t> Limit::max()
max(l) == IF l.max_ = U32Max THEN nullopt ELSE make_optional(l.max_)

-----------------------------------------------------------------------------
(* FunctionType, and the grammar rule that is to read one *)

\* std::span<const ValueType> FunctionType::param_tys()
param_tys(f) == sub_vec(f.vec_, 2, 0).val

\* std::span<const ValueType> FunctionType::result_tys()
result_tys(f) == sub_vec(f.vec_, 2, 1).val

\* the FunctionType whose array holds the parameters ps, then the results rs
FunctionTypeOf(ps, rs) ==
    [vec_ |-> SmallMultiArray(ps \o rs, <<Len(ps), Len(ps) + Len(rs)>>)]

\* objects that a FunctionType never initialised can turn out to be: some that
\* are well formed, one that is not
IndeterminateFunctionTypes ==
    {FunctionTypeOf(ps, rs) : ps \in {<<>>, <<"i32", "i64">>, <<"extern_ref">>},
                              rs \in {<<>>, <<"f32">>, <<"func_ref">>}}
        \cup {[vec_ |-> SmallMultiArray(<<"i32">>, <<1, 0>>)]}

\* FunctionType read_function_ty(): the body is `expect(0x60);` alone, and
\* control then flows off the end of a function returning FunctionType, which
\* is undefined: the caller gets an object nothing initialised
read_function_ty(buf, rd, indeterminate) ==
    LET marker == expect(buf, rd, 96)
    IN  IF marker.err # NoErr THEN marker
        ELSE Return(marker.rd, indeterminate)

\* objects that a Limit never initialised can turn out to be
IndeterminateLimits ==
    {Limit(mn, mx) : mn \in {{}, WordOf(2)}, mx \in {WordOf(96), U32Max}}

\* Limit read_limit(): the body is empty; nothing is read, and control flows off
\* the end of a function returning Limit, which is undefined: the caller gets
\* an object nothing initialised
read_limit(buf, rd, indeterminate) == Return(rd, indeterminate)

-----------------------------------------------------------------------------
(* LinearArena and ArenaFrame.  A byte* is an offset into the arena's block,
   a LinearArena* is the address of the one arena there is, and nullptr is
   nullptr for both *)

nullptr == -1

\* the address of the arena (`this` in its member functions)
this == 0

\* no LinearArena constructed
NoArena == [current_ |-> nullptr]

\* ArenaFrame::ArenaFrame(LinearArena* arena, byte* old_current)
ArenaFrame(arena, old_current) == [arena_ |-> arena, old_current_ |-> old_current]

\* ArenaFrame LinearArena::enter_frame()
enter_frame(a) == ArenaFrame(this, a.current_)

\* a plausible slip: the cursor is not put back
leave_frame_noop(a, previous_current) == a

\* void LinearArena::leave_frame(byte* previous_current)
leave_frame(a, previous_current) == [a EXCEPT !.current_ = previous_current]

\* ArenaFrame::ArenaFrame(ArenaFrame&& other): the object made, and other after
move_construct(other) ==
    [self  |-> ArenaFrame(other.arena_, other.old_current_),
     other |-> ArenaFrame(nullptr, nullptr)]

\* ArenaFrame& ArenaFrame::operator=(ArenaFrame&& other): *this and other
\* after; `same` says that other is *this, when each std::exchange hands back
\* the member that the assignment then stores again
move_assign(self, other, same) ==
    [self  |-> ArenaFrame(other.arena_, other.old_current_),
     other |-> IF same THEN ArenaFrame(other.arena_, other.old_current_)
               ELSE ArenaFrame(nullptr, nullptr)]

\* arena_->leave_frame(old_current_) with arena_ null: the call is undefined
NullDereference == [kind |-> "null pointer dereference", expected |-> -1, actual |-> -1]

\* ArenaFrame::~ArenaFrame() on the frame f of the arena a: the arena after,
\* for each outcome.  With arena_ null the member call through it is
\* undefined: the process is killed by the store through the null pointer,
\* or, the compiler being free to assume arena_ is not null, goes on with the
\* store having hit nothing
destroy(f, a) ==
    IF f.arena_ = nullptr
    THEN {[arena |-> a, err |-> NullDereference], [arena |-> a, err |-> NoErr]}
    ELSE {[arena |-> leave_frame(a, f.old_current_), err |-> NoErr]}

-----------------------------------------------------------------------------
(* LEB128 encoding (the writer of the fixtures the tests decode) *)

\* x >> 7 on a u64
ShiftRight7(x) == {j - 7 : j \in {k \in x : k >= 7}}

\* x >> 7 on an i64 (arithmetic: the sign bit is copied in)
ArithShiftRight7(x) ==
    ShiftRight7(x) \cup (IF (WordBits - 1) \in x THEN (WordBits - 7)..(WordBits - 1) ELSE {})

\* the minimal unsigned LEB128 encoding of the u64 v
RECURSIVE EncodeUnsigned(_)
EncodeUnsigned(v) ==
    LET group == NatOf(Truncate(v, 7))
        rest  == ShiftRight7(v)
    IN  IF rest = {} THEN <<group>>
        ELSE <<group + leb128_continue>> \o EncodeUnsigned(rest)

\* the minimal signed LEB128 encoding of the i64 v
RECURSIVE EncodeSigned(_)
EncodeSigned(v) ==
    LET group == NatOf(Truncate(v, 7))
        rest  == ArithShiftRight7(v)
        done  == \/ rest = {} /\ 6 \notin v
                 \/ rest = 0..(WordBits - 1) /\ 6 \in v
    IN  IF done THEN <<group>>
        ELSE <<group + leb128_continue>> \o EncodeSigned(rest)

\* v < 2^N, for a u64 v
FitsUnsigned(v, N) == v \subseteq 0..(N - 1)

\* -2^(N-1) <= v < 2^(N-1), for an i64 v: bits N-1..63 are all equal
FitsSigned(v, N) ==
    \/ v \cap ((N - 1)..(WordBits - 1)) = {}
    \/ (N - 1)..(WordBits - 1) \subseteq v

-----------------------------------------------------------------------------
(* The inputs of the model *)

\* 0x01 and 0x02 (lengths), 0x60 (the function-type marker, and a byte with
\* bit 6 set), 0x7F (the i32 tag, and the last group of a negative number),
\* 0x80 and 0xFF (continuation bytes)
Alphabet == {1, 2, 96, 127, 128, 255}

\* every buffer of at most MaxLen alphabet bytes
ShortInputs == UNION {[1..n -> Alphabet] : n \in 0..MaxLen}

\* the byte sequences of tests/bc/leb128.test.cc
TestSingle == <<34>>

TestMultiple == <<229, 142, 38>>

TestMany == <<157, 179, 148, 250, 1>>

TestMax == <<201, 244, 158, 221, 142, 216, 164, 229, 239, 1>>

TestTooMany == <<201, 244, 158, 221, 142, 216, 164, 229, 239, 239, 1>>

\* n copies of the byte b
Run(b, n) == [i \in 1..n |-> b]

\* runs of continuation bytes, alone or followed by one more byte
ContinuationRuns ==
    {Run(c, k) \o t : c \in {128, 255}, k \in 0..11, t \in {<<>>, <<1>>, <<127>>, <<96>>}}

\* unsigned values: the small ones, and around every power of two
UnsignedSamples ==
    {WordOf(n) : n \in 0..SmallMax}
        \cup {0..(k - 1) : k \in 0..WordBits}
        \cup {{k} : k \in 0..(WordBits - 1)}
        \cup {{0, k} : k \in 1..(WordBits - 1)}

\* signed values: the small ones and their complements, and around plus and
\* minus every power of two
SignedSamples ==
    {WordOf(n) : n \in 0..SmallMax}
        \cup {(0..(WordBits - 1)) \ WordOf(n) : n \in 0..SmallMax}
        \cup {0..(k - 1) : k \in 0..(WordBits - 1)}
        \cup {{k} : k \in 0..(WordBits - 2)}
        \cup {k..(WordBits - 1) : k \in 0..(WordBits - 1)}
        \cup {(0..(WordBits - 1)) \ {k} : k \in 0..(WordBits - 2)}

CodecInputs ==
    {TestSingle, TestMultiple, TestMany, TestMax, TestTooMany}
        \cup ContinuationRuns
        \cup {EncodeUnsigned(v) : v \in UnsignedSamples}
        \cup {EncodeSigned(v) : v \in SignedSamples}

\* every buffer of one byte
SingleBytes == {<<b>> : b \in 0..255}

\* function types and vectors of value types in the binary format, well-formed
\* and not: (i32, i64) -> f32, () -> (), (extern_ref) -> func_ref, a type cut
\* short, a vector with an unknown tag, a length of too many bytes
TypeInputs ==
    { <<96, 2, 127, 126, 1, 125>>,
      <<96, 0, 0>>,
      <<96, 1, 111, 1, 112>>,
      <<96, 2, 127>>,
      <<2, 124, 123>>,
      <<0, 127>>,
      <<1, 64>>,
      <<128, 128, 128, 128, 128, 1>> }

\* the widths of read_u8/read_i8 ... read_u64/read_i64
TypedWidths == {8, 16, 32, 64}

-----------------------------------------------------------------------------
(* The reader as a state machine *)

NoCall == [op |-> "none", arg |-> 0, pre |-> [data |-> 0, size |-> 0],
           err |-> NoErr, val |-> <<>>]

\* the reader the operators work on
Reader == [data |-> remaining_.data, size |-> remaining_.size, touched |-> touched]

\* a call that returned or threw r: the reader is left as the call left it
Called(op, arg, r) ==
    /\ remaining_' = [data |-> r.rd.data, size |-> r.rd.size]
    /\ touched' = r.rd.touched
    /\ last' = [op |-> op, arg |-> arg, pre |-> remaining_, err |-> r.err, val |-> r.val]
    /\ UNCHANGED <<bytecode, width, builder, array, pushed, args,
                 arena_vars>>

Init ==
    /\ bytecode \in ShortInputs \cup SingleBytes \cup TypeInputs
    /\ remaining_ = [data |-> 0, size |-> Len(bytecode)]
    /\ touched = {}
    /\ width = 0
    /\ last = NoCall
    /\ builder = NoBuilder
    /\ array = NoArray
    /\ pushed = NoPushes
    /\ linear_arena = NoArena
    /\ frames = <<>>
    /\ entered = <<>>
    /\ args = NoArgs

Consume == Called("consume", 0, consume(bytecode, Reader))

Expect == \E b \in Alphabet \cup {0} : Called("expect", b, expect(bytecode, Reader, b))

ConsumeN == \E n \in 0..MaxConsumeN : Called("consume_n", n, consume_n(bytecode, Reader, n))

ReadUnsigned == \E w \in TypedWidths : Called("read_u", w, read_uN(bytecode, Reader, w))

ReadSigned == \E w \in TypedWidths : Called("read_i", w, read_iN(bytecode, Reader, w))

ReadValTy == Called("read_val_ty", 0, read_val_ty(bytecode, Reader))

ReadName == Called("read_name", 0, read_name(bytecode, Reader))

ReadVec ==
    \E m \in {"read_val_ty", "read_byte"} :
        Called("read_vec", m, read_vec(bytecode, Reader, m))

ReadResultTy == Called("read_result_ty", 0, read_result_ty(bytecode, Reader))

ReadFunctionTy ==
    \E f \in IndeterminateFunctionTypes :
        Called("read_function_ty", 0, read_function_ty(bytecode, Reader, f))

ReadLimit ==
    \E l \in IndeterminateLimits :
        Called("read_limit", 0, read_limit(bytecode, Reader, l))

Next ==
    \/ Consume
    \/ Expect
    \/ ConsumeN
    \/ ReadUnsigned
    \/ ReadSigned
    \/ ReadValTy
    \/ ReadName
    \/ ReadVec
    \/ ReadResultTy
    \/ ReadFunctionTy
    \/ ReadLimit

Spec == Init /\ [][Next]_vars

-----------------------------------------------------------------------------
(* The codec under test: as in tests/bc/leb128.test.cc, every read is made by
   a reader freshly constructed over the same bytes *)

InitLeb ==
    /\ bytecode \in CodecInputs
    /\ width \in 1..MaxWidth
    /\ remaining_ = [data |-> 0, size |-> Len(bytecode)]
    /\ touched = {}
    /\ last = NoCall
    /\ builder = NoBuilder
    /\ array = NoArray
    /\ pushed = NoPushes
    /\ linear_arena = NoArena
    /\ frames = <<>>
    /\ entered = <<>>
    /\ args = NoArgs

\* a call on a reader constructed over `bytecode`
CalledFresh(op, r) ==
    /\ remaining_' = [data |-> r.rd.data, size |-> r.rd.size]
    /\ touched' = r.rd.touched
    /\ last' = [op |-> op, arg |-> width, pre |-> [data |-> 0, size |-> Len(bytecode)],
                err |-> r.err, val |-> r.val]
    /\ UNCHANGED <<bytecode, width, builder, array, pushed, args,
                 arena_vars>>

TestUnsigned ==
    CalledFresh("read_leb128_unsigned",
                read_leb128_unsigned(bytecode, Construct(bytecode), width))

TestSigned ==
    CalledFresh("read_leb128_signed",
                read_leb128_signed(bytecode, Construct(bytecode), width))

NextLeb ==
    \/ TestUnsigned
    \/ TestSigned

SpecLeb == InitLeb /\ [][NextLeb]_vars

-----------------------------------------------------------------------------
(* A SmallMultiArray<T, N, SmallSize> built and read: the builder takes pushes
   and closes in any order, build() ends its use, and the array built is then
   asked for sub-vectors, existing or not *)

\* the values pushed (two ValueTypes, as in FunctionType's array)
Elements == {"i32", "f64"}

\* an assert() failed: the process is gone
Halted ==
    last.err.kind \in {"out of bounds on MultiArrayBuilder",
                       "attempted to get non-existent sub-vec",
                       "attempting to convert non-ref to ref",
                       "null pointer dereference"}

InitStore ==
    /\ width \in 1..MaxArity
    /\ builder = MultiArrayBuilder(width)
    /\ array = NoArray
    /\ pushed = NoPushes
    /\ linear_arena = NoArena
    /\ frames = <<>>
    /\ entered = <<>>
    /\ args = NoArgs
    /\ last = NoCall
    /\ bytecode = <<>>
    /\ remaining_ = [data |-> 0, size |-> 0]
    /\ touched = {}

Push ==
    /\ ~Halted
    /\ ~array.built
    /\ Len(builder.underlying_) < MaxPush
    /\ \E v \in Elements :
           /\ builder' = push(builder, v)
           /\ pushed' = [pushed EXCEPT !.open = Append(@, v)]
           /\ last' = [op |-> "push", arg |-> v, pre |-> builder, err |-> NoErr,
                       val |-> <<>>]
    /\ UNCHANGED <<bytecode, remaining_, touched, width, array, args,
                 arena_vars>>

EndSubVec ==
    /\ ~Halted
    /\ ~array.built
    /\ LET r == end_sub_vec(builder, width)
       IN  /\ builder' = r.obj
           /\ pushed' = IF r.err = NoErr
                        THEN [closed |-> Append(pushed.closed, pushed.open), open |-> <<>>]
                        ELSE pushed
           /\ last' = [op |-> "end_sub_vec", arg |-> 0, pre |-> builder, err |-> r.err,
                       val |-> <<>>]
    /\ UNCHANGED <<bytecode, remaining_, touched, width, array, args,
                 arena_vars>>

\* build(): underlying_ is moved into the array
Build ==
    /\ ~Halted
    /\ ~array.built
    /\ array' = build(builder)
    /\ builder' = [builder EXCEPT !.underlying_ = <<>>]
    /\ last' = [op |-> "build", arg |-> 0, pre |-> builder, err |-> NoErr, val |-> <<>>]
    /\ UNCHANGED <<bytecode, remaining_, touched, width, pushed, args,
                 arena_vars>>

SubVec ==
    /\ ~Halted
    /\ array.built
    /\ \E i \in 0..(width + 1) :
           LET r == sub_vec(array, width, i)
           IN  last' = [op |-> "sub_vec", arg |-> i, pre |-> builder, err |-> r.err,
                        val |-> r.val]
    /\ UNCHANGED <<bytecode, remaining_, touched, width, builder, array, pushed, args,
                 arena_vars>>

NextStore ==
    \/ Push
    \/ EndSubVec
    \/ Build
    \/ SubVec

SpecStore == InitStore /\ [][NextStore]_vars

-----------------------------------------------------------------------------
(* The functions on AST types, applied to arguments drawn at the start *)

\* u32 values: the smallest, the largest, and the two around 2^31
U32Samples ==
    {WordOf(n) : n \in 0..SmallU32}
        \cup {U32Max \ WordOf(n) : n \in 0..SmallU32}
        \cup {{31}, 0..30}

InitAst ==
    /\ args \in [min : U32Samples, max : U32Samples, ty : DOMAIN ValueType]
    /\ last = NoCall
    /\ width = 0
    /\ bytecode = <<>>
    /\ remaining_ = [data |-> 0, size |-> 0]
    /\ touched = {}
    /\ builder = NoBuilder
    /\ array = NoArray
    /\ pushed = NoPushes
    /\ linear_arena = NoArena
    /\ frames = <<>>
    /\ entered = <<>>

\* a call that returned val or aborted with err
Applied(op, err, val) ==
    /\ ~Halted
    /\ last' = [op |-> op, arg |-> 0, pre |-> [data |-> 0, size |-> 0],
                err |-> err, val |-> val]
    /\ UNCHANGED <<bytecode, remaining_, touched, width, builder, array, pushed, args,
                 arena_vars>>

\* Limit::bounded(min, max), then min() and max() of the Limit made
LimitBounded ==
    LET l == bounded(args.min, args.max)
    IN  Applied("Limit::bounded", NoErr, [min |-> min(l), max |-> max(l)])

\* Limit::unbounded(min), then min() and max() of the Limit made
LimitUnbounded ==
    LET l == unbounded(args.min)
    IN  Applied("Limit::unbounded", NoErr, [min |-> min(l), max |-> max(l)])

IntoRefTy ==
    LET r == into_ref_ty(args.ty)
    IN  Applied("into_ref_ty", r.err, r.val)

TryIntoRefTy == Applied("try_into_ref_ty", NoErr, try_into_ref_ty(args.ty))

NextAst ==
    \/ LimitBounded
    \/ LimitUnbounded
    \/ IntoRefTy
    \/ TryIntoRefTy

SpecAst == InitAst /\ [][NextAst]_vars

-----------------------------------------------------------------------------
(* Successive LEB128 reads by one reader, over a buffer that holds the
   encodings of several values one after the other *)

\* values to encode, each to be written and read back as signed or unsigned:
\* 0, 127, 128, 624485, 2^32 and 2^64 - 1 unsigned; 63, 64, -1, -128 and -2^63
\* signed
SeqSamples ==
    {[signed |-> FALSE, v |-> x] :
         x \in {{}, WordOf(127), WordOf(128), WordOf(624485), {32}, 0..(WordBits - 1)}}
        \cup {[signed |-> TRUE, v |-> x] :
                 x \in {WordOf(63), WordOf(64), 0..(WordBits - 1), 7..(WordBits - 1),
                        {WordBits - 1}}}

\* the encoding of one value
Encode(x) == IF x.signed THEN EncodeSigned(x.v) ELSE EncodeUnsigned(x.v)

\* the encodings of the values vs, one after the other
RECURSIVE EncodeAll(_)
EncodeAll(vs) == IF vs = <<>> THEN <<>> ELSE Encode(Head(vs)) \o EncodeAll(Tail(vs))

\* the widths the successive reads are made at
SeqWidths == {7, 8, 32, 64}

InitSeq ==
    /\ args \in {[values |-> vs] : vs \in UNION {[1..k -> SeqSamples] : k \in 0..MaxValues}}
    /\ bytecode = EncodeAll(args.values)
    /\ remaining_ = [data |-> 0, size |-> Len(bytecode)]
    /\ touched = {}
    /\ width = 0
    /\ last = NoCall
    /\ builder = NoBuilder
    /\ array = NoArray
    /\ pushed = NoPushes
    /\ linear_arena = NoArena
    /\ frames = <<>>
    /\ entered = <<>>

NextUnsigned ==
    \E w \in SeqWidths :
        Called("read_leb128_unsigned", w, read_leb128_unsigned(bytecode, Reader, w))

NextSigned ==
    \E w \in SeqWidths :
        Called("read_leb128_signed", w, read_leb128_signed(bytecode, Reader, w))

NextSeq ==
    \/ NextUnsigned
    \/ NextSigned

SpecSeq == InitSeq /\ [][NextSeq]_vars

-----------------------------------------------------------------------------
(* One LinearArena and the ArenaFrame objects of a block: frames are entered,
   moved into new objects or into others, and the objects are destroyed in
   the reverse of the order they were constructed in, as the objects of a
   block are *)

\* the objects not yet destroyed
Alive == {i \in 1..Len(frames) : frames[i].alive}

\* the object constructed last among those alive
Top == CHOOSE i \in Alive : \A j \in Alive : j <= i

\* an object as the variable `frames` keeps it
Object(f, frame) ==
    [arena_ |-> f.arena_, old_current_ |-> f.old_current_, alive |-> TRUE, frame |-> frame]

\* a call on the arena or on a frame, with the cursor and the object before it
ArenaCall(op, obj, err) ==
    last' = [op |-> op, arg |-> 0, pre |-> [current_ |-> linear_arena.current_, obj |-> obj],
             err |-> err, val |-> <<>>]

\* LinearArena declares no constructor: current_ starts with whatever value
InitArena ==
    /\ linear_arena \in {[current_ |-> c] : c \in 0..ArenaSize}
    /\ frames = <<>>
    /\ entered = <<>>
    /\ last = NoCall
    /\ width = 0
    /\ bytecode = <<>>
    /\ remaining_ = [data |-> 0, size |-> 0]
    /\ touched = {}
    /\ builder = NoBuilder
    /\ array = NoArray
    /\ pushed = NoPushes
    /\ args = NoArgs

\* alloc_size(size, kind): the body is empty and control flows off the end of
\* a function returning byte*, which is undefined; the cursor is left anywhere
AllocSize ==
    /\ ~Halted
    /\ \E c \in 0..ArenaSize : linear_arena' = [linear_arena EXCEPT !.current_ = c]
    /\ ArenaCall("alloc_size", NoArena, NoErr)
    /\ UNCHANGED <<frames, entered, other_vars>>

\* auto frame = arena.enter_frame();
EnterFrame ==
    /\ ~Halted
    /\ Len(frames) < MaxFrames
    /\ frames' = Append(frames, Object(enter_frame(linear_arena), Len(entered) + 1))
    /\ entered' = Append(entered, [at |-> linear_arena.current_, released |-> 0])
    /\ ArenaCall("enter_frame", NoArena, NoErr)
    /\ UNCHANGED <<linear_arena, other_vars>>

\* ArenaFrame moved = std::move(frames[i]);
MoveConstruct ==
    /\ ~Halted
    /\ Len(frames) < MaxFrames
    /\ \E i \in Alive :
           LET m == move_construct(frames[i])
           IN  /\ frames' = Append([frames EXCEPT ![i] = Object(m.other, 0)],
                                   Object(m.self, frames[i].frame))
               /\ ArenaCall("move_construct", frames[i], NoErr)
    /\ UNCHANGED <<linear_arena, entered, other_vars>>

\* frames[dst] = std::move(frames[src]);
MoveAssign ==
    /\ ~Halted
    /\ \E dst \in Alive, src \in Alive :
           LET m == move_assign(frames[dst], frames[src], dst = src)
           IN  /\ frames' = IF dst = src THEN [frames EXCEPT ![dst] = Object(m.self, @.frame)]
                            ELSE [frames EXCEPT ![dst] = Object(m.self, frames[src].frame),
                                                ![src] = Object(m.other, 0)]
               /\ ArenaCall("move_assign", frames[dst], NoErr)
    /\ UNCHANGED <<linear_arena, entered, other_vars>>

\* the end of the lifetime of the object constructed last: ~ArenaFrame()
Destroy ==
    /\ ~Halted
    /\ Alive # {}
    /\ \E r \in destroy(frames[Top], linear_arena) :
           /\ linear_arena' = r.arena
           /\ frames' = [frames EXCEPT ![Top].alive = FALSE]
           /\ entered' = IF frames[Top].frame # 0 /\ r.err = NoErr
                         THEN [entered EXCEPT ![frames[Top].frame].released = @ + 1]
                         ELSE entered
           /\ ArenaCall("~ArenaFrame", frames[Top], r.err)
    /\ UNCHANGED other_vars

NextArena ==
    \/ AllocSize
    \/ EnterFrame
    \/ MoveConstruct
    \/ MoveAssign
    \/ Destroy

SpecArena == InitArena /\ [][NextArena]_vars

-----------------------------------------------------------------------------
(* Claims about the byte cursor (checked under Spec) *)

\* the span `pre` with its first n bytes dropped
Advanced(pre, n) == [data |-> pre.data + n, size |-> pre.size - n]

\* C1: consume() with at least one byte remaining returns the first remaining
\* byte and shrinks the remaining view by exactly one byte from the front;
\* with no bytes remaining it fails with the end-of-input error and leaves
\* the remaining view unchanged (still empty).
C1_ConsumeContract ==
    last.op = "consume" =>
        IF last.pre.size > 0
        THEN /\ last.err = NoErr
             /\ last.val = bytecode[last.pre.data + 1]
             /\ remaining_ = Advanced(last.pre, 1)
        ELSE /\ last.err = EndOfModule
             /\ remaining_ = last.pre
             /\ remaining_.size = 0

\* consume() returned a byte from the middle of the buffer
C1_Witness ==
    /\ last.op = "consume"
    /\ last.err = NoErr
    /\ last.pre.data >= 1
    /\ last.pre.size >= 2

\* C2 (as claimed): consume_n<N>() with fewer than N bytes remaining fails and
\* leaves the cursor where it was before the call; with at least N bytes
\* remaining it returns exactly the next N bytes in order and advances by N.
C2_ConsumeNAtomic ==
    last.op = "consume_n" =>
        IF last.pre.size < last.arg
        THEN /\ last.err # NoErr
             /\ remaining_ = last.pre
        ELSE /\ last.err = NoErr
             /\ last.val = SubSeq(bytecode, last.pre.data + 1, last.pre.data + last.arg)
             /\ remaining_ = Advanced(last.pre, last.arg)

\* C3: expect(b) consumes exactly one byte; it succeeds iff that byte equals
\* b, fails with the unexpected-byte error carrying expected and actual when
\* the byte differs, and fails with the end-of-input error when no byte
\* remains.
C3_ExpectContract ==
    last.op = "expect" =>
        IF last.pre.size > 0
        THEN LET got == bytecode[last.pre.data + 1]
             IN  /\ remaining_ = Advanced(last.pre, 1)
                 /\ (last.err = NoErr) <=> (got = last.arg)
                 /\ got # last.arg => last.err = UnexpectedByte(last.arg, got)
        ELSE /\ last.err = EndOfModule
             /\ remaining_ = last.pre

\* expect(b) met another byte
C3_Witness ==
    /\ last.op = "expect"
    /\ last.pre.size > 0
    /\ last.err.kind = "got unexpected byte"
    /\ last.err.expected = 96
    /\ last.err.actual = 127

\* a call of a method that reads, asking for at least one byte (read_limit,
\* whose body is empty, reads nothing)
NeedsByte ==
    /\ last.op \notin {"none", "read_limit"}
    /\ ~(last.op = "consume_n" /\ last.arg = 0)

\* C4: after any sequence of consume, consume_n, expect, read_u*/read_i*,
\* read_val_ty and read_name calls, successful or failing, the bytes consumed
\* never exceed the input (the remaining length is never negative and the
\* view ends where the buffer ends), every byte read lies inside the buffer,
\* and a call made with nothing left fails with the end-of-input error.
C4_CursorInBounds ==
    /\ remaining_.size >= 0
    /\ remaining_.data + remaining_.size = Len(bytecode)
    /\ touched \subseteq 0..(Len(bytecode) - 1)
    /\ last.err = EndOfModule => remaining_.size = 0
    /\ (NeedsByte /\ last.pre.size = 0) => last.err = EndOfModule

\* read_name ran off the end of a buffer after reading all of it
C4_Witness ==
    /\ last.op = "read_name"
    /\ last.err = EndOfModule
    /\ last.pre.size >= 2
    /\ touched = 0..(Len(bytecode) - 1)

-----------------------------------------------------------------------------
(* Claims about the LEB128 codec (checked under SpecLeb) *)

\* the digits of a decimal numeral, halved (carry is the remainder so far)
RECURSIVE HalfDigits(_, _)
HalfDigits(ds, carry) ==
    IF ds = <<>> THEN <<>>
    ELSE LET cur == carry * 10 + Head(ds)
         IN  <<cur \div 2>> \o HalfDigits(Tail(ds), cur % 2)

RECURSIVE DecimalBits(_, _)
DecimalBits(ds, j) ==
    IF \A i \in 1..Len(ds) : ds[i] = 0 THEN {}
    ELSE (IF ds[Len(ds)] % 2 = 1 THEN {j} ELSE {})
             \cup DecimalBits(HalfDigits(ds, 0), j + 1)

\* the word written as the decimal numeral ds
DecimalWord(ds) == DecimalBits(ds, 0)

\* the bytes the last call consumed
Consumed == remaining_.data - last.pre.data

\* (b & 0x7F) << 7 * (i - 1) in 64 bits, for the i-th byte b
Group(b, i) ==
    {7 * (i - 1) + j : j \in {x \in 0..6 : BitOf(b, x) = 1}} \cap (0..(WordBits - 1))

\* the OR of the groups of the bytes bs
ReferenceValue(bs) == UNION {Group(bs[i], i) : i \in 1..Len(bs)}

\* the byte has its continuation bit set
Continues(b) == BitOf(b, 7) = 1

\* C5: wherever read_leb128_unsigned<N> succeeds, the bytes it consumed are
\* b_1..b_k with b_k the first byte whose continuation bit is clear, and the
\* result is the OR of (b_i & 0x7F) << 7*(i-1) in a 64-bit accumulator; at
\* width 64, [0x22] gives 34, [0xE5,0x8E,0x26] gives 624485,
\* [0x9D,0xB3,0x94,0xFA,0x01] gives 524622237 and the ten-byte test sequence
\* gives 17278784277645343305.
C5_UnsignedReference ==
    last.op = "read_leb128_unsigned" =>
        /\ last.err = NoErr =>
               /\ Consumed >= 1
               /\ \A i \in 1..(Consumed - 1) : Continues(bytecode[i])
               /\ ~Continues(bytecode[Consumed])
               /\ last.val = ReferenceValue(SubSeq(bytecode, 1, Consumed))
        /\ (width = 64 /\ bytecode = TestSingle) =>
               last.err = NoErr /\ last.val = WordOf(34)
        /\ (width = 64 /\ bytecode = TestMultiple) =>
               last.err = NoErr /\ last.val = WordOf(624485)
        /\ (width = 64 /\ bytecode = TestMany) =>
               last.err = NoErr /\ last.val = WordOf(524622237)
        /\ (width = 64 /\ bytecode = TestMax) =>
               /\ last.err = NoErr
               /\ last.val = DecimalWord(<<1, 7, 2, 7, 8, 7, 8, 4, 2, 7,
                                           7, 6, 4, 5, 3, 4, 3, 3, 0, 5>>)

\* the five-byte test sequence was decoded at width 64
C5_Witness ==
    /\ last.op = "read_leb128_unsigned"
    /\ width = 64
    /\ bytecode = TestMany
    /\ last.err = NoErr
    /\ Consumed = 5

\* ceil(N / 7)
MaxBytes(N) == (N + 6) \div 7

\* the first ceil(N/7) bytes are there and all have the continuation bit set
OverLong(N) ==
    /\ Len(bytecode) >= MaxBytes(N)
    /\ \A i \in 1..MaxBytes(N) : Continues(bytecode[i])

\* C6: a LEB128 decode at width N consumes at most ceil(N/7) bytes; if the
\* ceil(N/7)-th byte it reads still has its continuation bit set the decode
\* fails with the invalid-LEB128 error instead of reading a further group; a
\* width-64 unsigned decode succeeds on the 10-byte test encoding and fails
\* on the 11-byte one whose first 10 bytes all continue.
C6_OverLength ==
    last.op \in {"read_leb128_unsigned", "read_leb128_signed"} =>
        /\ Consumed <= MaxBytes(width)
        /\ OverLong(width) => (last.err = InvalidLEB128 /\ Consumed = MaxBytes(width))
        /\ last.err = InvalidLEB128 => OverLong(width)
        /\ (last.op = "read_leb128_unsigned" /\ width = 64 /\ bytecode = TestMax) =>
               (last.err = NoErr /\ Consumed = 10)
        /\ (last.op = "read_leb128_unsigned" /\ width = 64 /\ bytecode = TestTooMany) =>
               (last.err = InvalidLEB128 /\ Consumed = 10)

\* the 11-byte test sequence was rejected at width 64
C6_Witness ==
    /\ last.op = "read_leb128_unsigned"
    /\ width = 64
    /\ bytecode = TestTooMany
    /\ last.err = InvalidLEB128

\* every sampled unsigned value with its encoding
UnsignedTable == {<<EncodeUnsigned(v), v>> : v \in UnsignedSamples}

\* every sampled signed value with its encoding
SignedTable == {<<EncodeSigned(v), v>> : v \in SignedSamples}

\* C7: for every width N in 1..64 and every sampled v < 2^N, decoding the
\* minimal unsigned LEB128 encoding of v with read_leb128_unsigned<N>
\* succeeds, returns exactly v and consumes the whole encoding.
C7_UnsignedRoundTrip ==
    last.op = "read_leb128_unsigned" =>
        \A p \in UnsignedTable :
            (p[1] = bytecode /\ FitsUnsigned(p[2], width)) =>
                /\ last.err = NoErr
                /\ last.val = p[2]
                /\ remaining_.size = 0

\* 2^32 went through the codec at width 33
C7_Witness ==
    /\ last.op = "read_leb128_unsigned"
    /\ width = 33
    /\ bytecode = EncodeUnsigned({32})
    /\ last.err = NoErr
    /\ last.val = {32}

\* C8: for every width N in {8, 16, 32, 64} and every sampled v with
\* -2^(N-1) <= v < 2^(N-1) (the extremes and -1 among them), decoding the
\* minimal signed LEB128 encoding of v with read_leb128_signed<N> succeeds
\* and returns exactly v.
C8_SignedRoundTrip ==
    (last.op = "read_leb128_signed" /\ width \in TypedWidths) =>
        \A p \in SignedTable :
            (p[1] = bytecode /\ FitsSigned(p[2], width)) =>
                /\ last.err = NoErr
                /\ last.val = p[2]
                /\ remaining_.size = 0

\* -128 went through the codec at width 8
C8_Witness ==
    /\ last.op = "read_leb128_signed"
    /\ width = 8
    /\ bytecode = <<128, 127>>
    /\ last.err = NoErr
    /\ last.val = 7..(WordBits - 1)

\* the widths LEB128UnsignedTestFile decodes every line at
TestWidths == {8, 16, 23, 32, 52, 64}

\* v < 2^N - 1, the test's `value < std::numeric_limits<uN>::max()`
BelowMax(v, N) == FitsUnsigned(v, N) /\ v # 0..(N - 1)

\* C9: decoding the minimal encoding of a sampled unsigned value v at a
\* width N among 8, 16, 23, 32, 52, 64 with v < 2^N - 1 yields v, and so the
\* same value as decoding the same bytes at every other such width.
C9_NarrowerWidthAgreement ==
    (last.op = "read_leb128_unsigned" /\ width \in TestWidths) =>
        \A p \in UnsignedTable :
            (p[1] = bytecode /\ BelowMax(p[2], width)) =>
                /\ last.err = NoErr
                /\ last.val = p[2]
                /\ \A M \in TestWidths :
                       BelowMax(p[2], M) =>
                           read_leb128_unsigned(bytecode, Construct(bytecode), M).val
                               = last.val

\* 130, two bytes long, was decoded at width 8
C9_Witness ==
    /\ last.op = "read_leb128_unsigned"
    /\ width = 8
    /\ bytecode = <<130, 1>>
    /\ last.err = NoErr
    /\ last.val = WordOf(130)

\* the i64 whose low w bits are x's, read as a w-bit two's-complement number
SignExtend(x, w) ==
    IF (w - 1) \in x THEN Truncate(x, w) \cup (w..(WordBits - 1)) ELSE Truncate(x, w)

\* C10 (as claimed): wherever read_leb128_signed<8> succeeds and the final
\* consumed byte has bit 6 set, the result is negative and equals the
\* two's-complement reading, as a signed 8-bit integer, of its low 8 bits.
C10_SignExtension8 ==
    ( /\ last.op = "read_leb128_signed"
      /\ width = 8
      /\ last.err = NoErr
      /\ BitOf(bytecode[Consumed], 6) = 1 ) =>
        /\ (WordBits - 1) \in last.val
        /\ last.val = SignExtend(last.val, 8)

\* C11: wherever read_leb128_signed<N> succeeds, with acc the unsigned
\* accumulator of the bytes consumed, shift 7 times their number and last the
\* final byte, the result is acc with every bit from shift up to 63 set when
\* shift < 64 and last has bit 6 set, and acc unchanged otherwise, read as a
\* two's-complement 64-bit integer.
C11_SignedDecodeRule ==
    (last.op = "read_leb128_signed" /\ last.err = NoErr) =>
        LET acc   == ReferenceValue(SubSeq(bytecode, 1, Consumed))
            shift == 7 * Consumed
            final == bytecode[Consumed]
        IN  IF shift < 64 /\ BitOf(final, 6) = 1
            THEN last.val = acc \cup (shift..63)
            ELSE last.val = acc

\* a two-byte negative number was decoded at a width its shift differs from
C11_Witness ==
    /\ last.op = "read_leb128_signed"
    /\ last.err = NoErr
    /\ width = 16
    /\ Consumed = 2
    /\ BitOf(bytecode[2], 6) = 1
    /\ 63 \in last.val

-----------------------------------------------------------------------------
(* Views into a SmallMultiArray *)

\* the span lies inside the backing sequence array_ of a
InsideBacking(a, span) ==
    /\ span.size \subseteq 0..30
    /\ span.data + NatOf(span.size) <= Len(a.array_)

\* the elements of a that a span lying inside its array_ views
Viewed(a, span) == SubSeq(a.array_, span.data + 1, span.data + NatOf(span.size))

-----------------------------------------------------------------------------
(* Claims about the grammar rules (checked under Spec) *)

\* the tag bytes of the binary format with the types they stand for
TagTable ==
    { <<127, "i32">>, <<126, "i64">>, <<125, "f32">>, <<124, "f64">>,
      <<123, "v128">>, <<112, "func_ref">>, <<111, "extern_ref">> }

\* the byte at the cursor when the last call was made
FirstByte == bytecode[last.pre.data + 1]

\* C12: read_val_ty() consumes exactly one byte; 0x7F, 0x7E, 0x7D, 0x7C,
\* 0x7B, 0x70 and 0x6F give i32, i64, f32, f64, v128, func_ref and extern_ref;
\* each of the other 249 byte values fails with the unknown-type-tag error
\* carrying the byte, no ValueType being returned; the numeric encoding of a
\* returned ValueType is the byte read.
C12_ValueTypeTags ==
    (last.op = "read_val_ty" /\ last.pre.size > 0) =>
        /\ remaining_ = Advanced(last.pre, 1)
        /\ \A t \in TagTable :
               FirstByte = t[1] => (last.err = NoErr /\ last.val = t[2])
        /\ FirstByte \notin {t[1] : t \in TagTable} =>
               (last.err = UnknownType(FirstByte) /\ last.val = <<>>)
        /\ last.err = NoErr => ValueType[last.val] = FirstByte

\* 0x71, the byte after the func_ref tag, was refused
C12_Witness ==
    /\ last.op = "read_val_ty"
    /\ last.pre.size > 0
    /\ FirstByte = 113
    /\ last.err = UnknownType(113)

\* the bytes from the cursor of the last call on
Rest == SubSeq(bytecode, last.pre.data + 1, Len(bytecode))

\* the type a tag byte stands for
TypeOfTag(b) == (CHOOSE t \in TagTable : t[1] = b)[2]

\* bs starts with a vector of len value types: a one-byte length, then len tags
IsTypeVector(bs, len) ==
    /\ Len(bs) >= 1 + len
    /\ bs[1] = len
    /\ len < 128
    /\ \A i \in 2..(1 + len) : bs[i] \in {t[1] : t \in TagTable}

\* the value types of the vector bs starts with
TypesOf(bs, len) == [i \in 1..len |-> TypeOfTag(bs[i + 1])]

\* C13 (as claimed): read_function_ty() on 0x60, a length-prefixed list of
\* parameter types and a length-prefixed list of result types yields a
\* FunctionType whose param_tys() and result_tys() are exactly those lists
\* (0x60 2 0x7F 0x7E 1 0x7D gives parameters i32, i64 and result f32); on a
\* first byte other than 0x60 it fails with the unexpected-byte error.
C13_FunctionType ==
    (last.op = "read_function_ty" /\ last.pre.size > 0) =>
        /\ FirstByte # 96 => last.err = UnexpectedByte(96, FirstByte)
        /\ FirstByte = 96 =>
               \A np, nr \in 0..MaxLen :
                   ( /\ IsTypeVector(Tail(Rest), np)
                     /\ IsTypeVector(SubSeq(Rest, np + 3, Len(Rest)), nr) ) =>
                       /\ last.err = NoErr
                       /\ InsideBacking(last.val.vec_, param_tys(last.val))
                       /\ InsideBacking(last.val.vec_, result_tys(last.val))
                       /\ Viewed(last.val.vec_, param_tys(last.val))
                              = TypesOf(Tail(Rest), np)
                       /\ Viewed(last.val.vec_, result_tys(last.val))
                              = TypesOf(SubSeq(Rest, np + 3, Len(Rest)), nr)

\* C14 (as claimed): read_result_ty() reads an unsigned 32-bit LEB128 length
\* len and then decodes exactly len value types, returning them in input
\* order; a length of 0 succeeds, consumes only the length and returns the
\* empty sequence.
C14_ResultTypeVector ==
    last.op = "read_result_ty" =>
        \A len \in 0..MaxLen :
            IsTypeVector(Rest, len) =>
                /\ last.err = NoErr
                /\ last.val = TypesOf(Rest, len)
                /\ remaining_ = Advanced(last.pre, 1 + len)

\* read_vec called with read_val_ty as its reader decodes a length and then
\* that many value types, in order
ReadVecOfValTy ==
    (last.op = "read_vec" /\ last.arg = "read_val_ty") =>
        \A len \in 0..MaxLen :
            IsTypeVector(Rest, len) =>
                /\ last.err = NoErr
                /\ last.val = TypesOf(Rest, len)
                /\ remaining_ = Advanced(last.pre, 1 + len)

-----------------------------------------------------------------------------
(* Claims about SmallMultiArray and its builder (checked under SpecStore) *)

\* C15 (as claimed): every SmallMultiArray produced by build(), after any
\* sequence of push() and end_sub_vec() calls with at most N closes (fewer
\* than N and pushes after the last close included), has non-decreasing end
\* offsets, and its last offset indices_[N - 1] is the length of its backing
\* sequence.
C15_StoreInvariant ==
    array.built =>
        /\ \A i \in 1..(width - 1) : array.indices_[i] <= array.indices_[i + 1]
        /\ array.indices_[width] = Len(array.array_)

\* C16 (as claimed): after pushes partitioned by k <= N closes and build(),
\* sub_vec(i) for each i < N is a view lying wholly inside the backing
\* sequence, holding in order exactly the elements pushed between the
\* (i-1)-th and the i-th close.
C16_StoreBoundaries ==
    (last.op = "sub_vec" /\ last.arg < width) =>
        /\ last.err = NoErr
        /\ InsideBacking(array, last.val)
        /\ last.arg < Len(pushed.closed) =>
               Viewed(array, last.val) = pushed.closed[last.arg + 1]

\* C17: end_sub_vec() called more than N times fails fast: the call made with
\* N sub-vectors already closed aborts without storing anything, so that no
\* offset is written outside the N entries of indices_ and current_index_
\* never exceeds N.
C17_EndSubVecBound ==
    /\ builder.current_index_ <= width
    /\ DOMAIN builder.indices_ = 1..width
    /\ last.op = "end_sub_vec" =>
           IF last.pre.current_index_ < width
           THEN /\ last.err = NoErr
                /\ builder.current_index_ = last.pre.current_index_ + 1
           ELSE /\ last.err = Aborted("out of bounds on MultiArrayBuilder")
                /\ builder = last.pre
                /\ Halted

\* the third close of a builder of two sub-vectors was refused
C17_Witness ==
    /\ last.op = "end_sub_vec"
    /\ width = 2
    /\ last.pre.current_index_ = 2
    /\ last.err = Aborted("out of bounds on MultiArrayBuilder")

\* C18: sub_vec(i) with i >= N aborts: no view is returned, and no call of
\* sub_vec reads an entry outside the N entries of indices_.
C18_SubVecBound ==
    last.op = "sub_vec" =>
        IF last.arg >= width
        THEN /\ last.err = Aborted("attempted to get non-existent sub-vec")
             /\ last.val = <<>>
             /\ Halted
        ELSE /\ last.err = NoErr
             /\ last.val.read \subseteq 0..(width - 1)

\* sub_vec(N) was refused on an array that holds elements
C18_Witness ==
    /\ last.op = "sub_vec"
    /\ last.arg = width
    /\ Len(array.array_) >= 2
    /\ last.err = Aborted("attempted to get non-existent sub-vec")

-----------------------------------------------------------------------------
(* Claims about the AST types (checked under SpecAst) *)

\* C19 (as claimed): for every min and every 32-bit max, 2^32 - 1 included,
\* Limit::bounded(min, max).max() holds max and .min() is min, while
\* Limit::unbounded(min).max() is empty and .min() is min.
C19_LimitMax ==
    /\ last.op = "Limit::bounded" =>
           /\ last.val.min = args.min
           /\ last.val.max.has_value
           /\ last.val.max.value = args.max
    /\ last.op = "Limit::unbounded" =>
           /\ last.val.min = args.min
           /\ ~last.val.max.has_value

\* the ValueTypes that are reference types
ReferenceTypes == {"func_ref", "extern_ref"}

\* C20: for func_ref and extern_ref, try_into_ref_ty and into_ref_ty both
\* give the RefType with the same tag byte; for i32, i64, f32, f64 and v128,
\* try_into_ref_ty gives the empty optional and into_ref_ty fails, returning
\* no RefType.
C20_RefTypeNarrowing ==
    /\ last.op = "into_ref_ty" =>
           IF args.ty \in ReferenceTypes
           THEN /\ last.err = NoErr
                /\ last.val = RefType[args.ty]
                /\ last.val = ValueType[args.ty]
           ELSE /\ last.err = Aborted("attempting to convert non-ref to ref")
                /\ Halted
    /\ last.op = "try_into_ref_ty" =>
           IF args.ty \in ReferenceTypes
           THEN /\ last.val.has_value
                /\ last.val.value = RefType[args.ty]
                /\ last.val.value = ValueType[args.ty]
           ELSE ~last.val.has_value

\* into_ref_ty was refused a v128
C20_Witness ==
    /\ last.op = "into_ref_ty"
    /\ args.ty = "v128"
    /\ last.err = Aborted("attempting to convert non-ref to ref")

-----------------------------------------------------------------------------
(* Claims about failures and about sequences of reads *)

\* the decodes made of other reads
CompositeOps ==
    {"read_u", "read_i", "read_vec", "read_name", "read_result_ty", "read_function_ty"}

\* the byte consumed last
LastByte == bytecode[remaining_.data]

\* the places in 2..n of the first byte of bs after its length byte that is no
\* type tag, if there is one
BadTags(bs, n) == {i \in 2..n : i <= Len(bs) /\ bs[i] \notin {t[1] : t \in TagTable}}

Least(S) == CHOOSE i \in S : \A j \in S : i <= j

\* C21: when a nested byte read or element decode fails inside a composite
\* decode (read_u*/read_i*, read_vec, read_name, read_result_ty,
\* read_function_ty), the composite fails with that same error at the byte
\* where the nested read failed, decodes no further element and returns no
\* value: never a shortened vector or name, nor a partly accumulated integer.
C21_FailurePropagation ==
    last.op \in CompositeOps =>
        /\ last.err # NoErr => last.val = <<>>
        /\ last.err = EndOfModule => remaining_.size = 0
        /\ last.err = InvalidLEB128 => (Consumed >= 1 /\ Continues(LastByte))
        /\ last.err.kind = "unknown type identifier" =>
               /\ Consumed >= 1
               /\ last.err = UnknownType(LastByte)
               /\ LastByte \notin {t[1] : t \in TagTable}
        /\ last.err.kind = "got unexpected byte" =>
               /\ last.op = "read_function_ty"
               /\ Consumed = 1
               /\ last.err = UnexpectedByte(96, FirstByte)
        /\ (last.op = "read_name" /\ last.pre.size > 0 /\ FirstByte < 128) =>
               IF Len(Rest) < 1 + FirstByte
               THEN last.err = EndOfModule
               ELSE /\ last.err = NoErr
                    /\ last.val = SubSeq(Rest, 2, 1 + FirstByte)
        /\ ( /\ last.op = "read_vec"
             /\ last.arg = "read_val_ty"
             /\ last.pre.size > 0
             /\ FirstByte < 128 ) =>
               LET bad == BadTags(Rest, 1 + FirstByte)
               IN  IF bad # {}
                   THEN /\ last.err = UnknownType(Rest[Least(bad)])
                        /\ Consumed = Least(bad)
                   ELSE IF Len(Rest) < 1 + FirstByte
                        THEN last.err = EndOfModule
                        ELSE last.err = NoErr /\ Len(last.val) = FirstByte

\* a vector of two types failed on its first element, the second left unread
C21_Witness ==
    /\ last.op = "read_vec"
    /\ last.arg = "read_val_ty"
    /\ bytecode = <<2, 96, 127>>
    /\ last.pre.data = 0
    /\ last.err = UnknownType(96)
    /\ remaining_.size = 1

\* C22 (as claimed): read_limit() reads one flag byte, then min as an unsigned
\* 32-bit LEB128 integer, then max as one only when the flag says bounded
\* (0x01; 0x00 says unbounded), and returns a Limit with that min and with max
\* present iff the flag says bounded; any other flag byte fails.  Stated for
\* integers of one byte.
C22_ReadLimit ==
    (last.op = "read_limit" /\ last.pre.size > 0) =>
        /\ FirstByte \notin {0, 1} => last.err # NoErr
        /\ (FirstByte = 0 /\ Len(Rest) >= 2 /\ Rest[2] < 128) =>
               /\ last.err = NoErr
               /\ Consumed = 2
               /\ min(last.val) = WordOf(Rest[2])
               /\ ~max(last.val).has_value
        /\ (FirstByte = 1 /\ Len(Rest) >= 3 /\ Rest[2] < 128 /\ Rest[3] < 128) =>
               /\ last.err = NoErr
               /\ Consumed = 3
               /\ min(last.val) = WordOf(Rest[2])
               /\ max(last.val).has_value
               /\ max(last.val).value = WordOf(Rest[3])

\* where the encoding of the i-th value of the buffer ends
EndOf(i) == Len(EncodeAll(SubSeq(args.values, 1, i)))

\* the last call read with the method and at a width that the value x fits
ReadAsWritten(x) ==
    IF x.signed
    THEN last.op = "read_leb128_signed" /\ FitsSigned(x.v, last.arg)
    ELSE last.op = "read_leb128_unsigned" /\ FitsUnsigned(x.v, last.arg)

\* C23: a successful LEB128 decode consumes the bytes up to and including the
\* first one whose continuation bit is clear, and nothing after it; so on the
\* encodings of v_1..v_k one after the other, each fitting its width, a read
\* started where the (i-1)-th encoding ends returns v_i and leaves the cursor
\* where the i-th encoding ends: k successive reads return v_1..v_k and end
\* at the end of the k-th encoding.
C23_SuccessiveDecodes ==
    last.op \in {"read_leb128_unsigned", "read_leb128_signed"} =>
        /\ last.err = NoErr =>
               /\ Consumed >= 1
               /\ ~Continues(LastByte)
               /\ \A i \in (last.pre.data + 1)..(remaining_.data - 1) :
                      Continues(bytecode[i])
        /\ \A i \in 1..Len(args.values) :
               (last.pre.data = EndOf(i - 1) /\ ReadAsWritten(args.values[i])) =>
                   /\ last.err = NoErr
                   /\ last.val = args.values[i].v
                   /\ remaining_.data = EndOf(i)

\* the second of two values was read back, up to the end of the buffer
C23_Witness ==
    /\ last.op = "read_leb128_signed"
    /\ Len(args.values) = 2
    /\ last.pre.data = EndOf(1)
    /\ last.pre.data >= 2
    /\ last.err = NoErr
    /\ last.val = 7..(WordBits - 1)
    /\ remaining_.size = 0

\* the integer sum of (b_i & 0x7F) * 2^(7 * (i - 1)) over the bytes bs, as the
\* set of its binary digits, of any size
ExactValue(bs) ==
    UNION {{7 * (i - 1) + j : j \in {x \in 0..6 : BitOf(bs[i], x) = 1}} : i \in 1..Len(bs)}

\* C24 (as claimed): for every width N in 1..64 and every input on which
\* read_leb128_unsigned<N> (or read_u8, read_u16, read_u32, read_u64, with
\* their N) succeeds, the exact integer encoded by the bytes consumed is less
\* than 2^N and is the value returned.
C24_NoMisinterpretation ==
    /\ (last.op = "read_leb128_unsigned" /\ last.err = NoErr) =>
           LET exact == ExactValue(SubSeq(bytecode, last.pre.data + 1, remaining_.data))
           IN  /\ exact \subseteq 0..(last.arg - 1)
               /\ last.val = exact
    /\ (last.op = "read_u" /\ last.err = NoErr) =>
           LET exact == ExactValue(SubSeq(bytecode, last.pre.data + 1, remaining_.data))
           IN  /\ exact \subseteq 0..(last.arg - 1)
               /\ last.val = exact

\* C25: for every width N, on an input that ends after j < ceil(N/7) bytes
\* which all have the continuation bit set (j = 0, the empty input,
\* included), the LEB128 decode fails with the end-of-input error, not the
\* invalid-LEB128 error, and returns no value.
C25_TruncatedIntegers ==
    ( /\ last.op \in {"read_leb128_unsigned", "read_leb128_signed"}
      /\ Len(bytecode) < MaxBytes(width)
      /\ \A i \in 1..Len(bytecode) : Continues(bytecode[i]) ) =>
        /\ last.err = EndOfModule
        /\ last.val = <<>>
        /\ remaining_.size = 0

\* nine continuing bytes, one short of a 64-bit integer, ran out
C25_Witness ==
    /\ last.op = "read_leb128_signed"
    /\ width = 64
    /\ bytecode = Run(255, 9)
    /\ last.err = EndOfModule

\* the amounts a left shift may have
SafeShifts == {0, 7, 14, 21, 28, 35, 42, 49, 56, 63}

\* C26: for every width N in 1..64 and every input, every left shift the
\* decoder executes has an amount below 64: the accumulation shifts of
\* read_leb128_internal, one for each byte consumed, are 0, 7, ..., 63 at
\* most, and the sign-extension shift of read_leb128_signed is executed only
\* when shift < 64.
C26_ShiftAmounts ==
    last.op \in {"read_leb128_unsigned", "read_leb128_signed"} =>
        /\ {7 * (i - 1) : i \in 1..Consumed} \subseteq SafeShifts
        /\ LET parsed == read_leb128_internal(bytecode, Construct(bytecode), width)
           IN  parsed.err = NoErr =>
                   /\ parsed.val.shifts = {7 * (i - 1) : i \in 1..Consumed}
                   /\ \A sh \in parsed.val.shifts : sh < 64
                   /\ (/\ last.op = "read_leb128_signed"
                       /\ sign_extends(parsed.val.shift, parsed.val.last_byte)) =>
                          parsed.val.shift < 64

\* ten bytes were accumulated, the last shifted by 63, and the sign bit of the
\* last byte was set with nothing left to extend
C26_Witness ==
    /\ last.op = "read_leb128_signed"
    /\ width = 64
    /\ last.err = NoErr
    /\ Consumed = 10
    /\ BitOf(bytecode[10], 6) = 1

-----------------------------------------------------------------------------
(* Claims about the arena (checked under SpecArena) *)

\* C27: for any nesting of ArenaFrames obtained from enter_frame() and
\* destroyed last in, first out, right after the destruction of an object
\* holding a frame the arena's cursor current_ is what it was when that frame
\* was entered, whatever was allocated since.
C27_FrameRelease ==
    (last.op = "~ArenaFrame" /\ last.pre.obj.frame # 0) =>
        /\ last.err = NoErr
        /\ linear_arena.current_ = entered[last.pre.obj.frame].at

\* an inner frame was released after the cursor had moved, an outer one still
\* being held
C27_Witness ==
    /\ last.op = "~ArenaFrame"
    /\ last.pre.obj.frame = 2
    /\ last.pre.current_ # entered[2].at
    /\ entered[1].at # entered[2].at
    /\ frames[1].alive
    /\ frames[1].frame = 1

\* C28 (as claimed): after an ArenaFrame is move-constructed or move-assigned
\* from another, the frame is released exactly once, by the destination;
\* destroying the moved-from object, whose arena pointer is null, touches no
\* arena and leaves the cursor as it is; and move-assignment does not lose
\* the release of the frame the destination held before.
C28_MoveSafety ==
    /\ (last.op = "~ArenaFrame" /\ last.pre.obj.arena_ = nullptr) =>
           /\ last.err = NoErr
           /\ linear_arena.current_ = last.pre.current_
    /\ \A k \in 1..Len(entered) : entered[k].released <= 1
    /\ (frames # <<>> /\ Alive = {} /\ ~Halted) =>
           \A k \in 1..Len(entered) : entered[k].released = 1

=============================================================================
